---- MODULE Spec2Model ----
(***************************************************************************)
(* Model of the knowledge-base front-end: the document list component      *)
(* (ngOnInit, the 10 s interval + switchMap refetch) and the query          *)
(* component (submitQuery, onKeydown and their callbacks).  In src ngOnInit *)
(* is the only caller of loadDocuments and loadLocalStorageItems; both are  *)
(* public, so a call of either from outside the class is an action of its   *)
(* own, and the properties say where they depend on there being none.       *)
(* Strings that the code inspects character by character (trim, regex)     *)
(* are sequences of one-character strings.                                 *)
(***************************************************************************)
EXTENDS Integers, Sequences, FiniteSets, TLC

VARIABLES
    \* ---- DocumentListComponent ----
    documents,          \* this.documents
    dIsLoading,         \* this.isLoading of the document list
    localStorageItems,  \* this.localStorageItems
    localStorage,       \* the browser's store: sequence of [key, value]
    storeWrites,        \* number of writes this code made to the store
    dpc,                \* "constructed" before ngOnInit, "running" after
    loads,              \* ids of the loadDocuments() requests in flight
    started,            \* number of GET /documents requests issued so far
    loadIds,            \* history: ids of the requests loadDocuments() issued
    initialId,          \* history: id of the request ngOnInit's loadDocuments() issued, 0 before
    timerActive,        \* the interval(...).pipe(switchMap) subscription is live
    inner,              \* ids of the periodic fetches the switchMap stage is subscribed to
    ticks,              \* number of interval ticks fired so far
    delivered,          \* history: ids of the successes handed to a next callback, in order
    lastDelivered,      \* history: [id, docs] of the success delivered last
    newest,             \* history: [id, docs] of the latest-started fetch among the successes
    cancelled,          \* history: ids of the fetches switchMap unsubscribed
    dLast,              \* history: the last document-list handler that ran
    \* ---- QueryComponent ----
    query,              \* this.query
    isLoading,          \* this.isLoading of the query component
    errorMessage,       \* this.errorMessage
    messages,           \* this.messages
    pending,            \* HTTP POST /query requests in flight: [id, body]
    posted,             \* number of HTTP POST /query requests issued so far
    msgReq,             \* history: for each transcript entry, the request it belongs to
    failed,             \* history: ids of the requests whose error callback ran
    qLast,              \* history: the last query handler that ran
    lastResponse,       \* history: the body the last next callback was called with
    keyEvent            \* the last KeyboardEvent handed to onKeydown

dvars == <<documents, dIsLoading, localStorageItems, localStorage, storeWrites,
           dpc, loads, started, loadIds, initialId, timerActive, inner, ticks,
           delivered, lastDelivered, newest, cancelled, dLast>>
qvars == <<query, isLoading, errorMessage, messages, pending, posted, msgReq, failed, qLast,
           lastResponse>>
kvars == <<keyEvent>>
vars == <<dvars, qvars, kvars>>

-----------------------------------------------------------------------------
(* Bounds *)
MaxTicks == 3
MaxSubmits == 2
MaxLoads == 1

-----------------------------------------------------------------------------
(* DocumentListComponent *)

DocA == [filename |-> "a.pdf", path |-> "docs/a.pdf"]
DocB == [filename |-> "b.txt", path |-> "docs/b.txt", last_modified |-> "2024-01-01"]

\* Bodies GET /documents can answer with.
DocLists == { <<>>, <<DocA>>, <<DocB, DocA>> }

\* Contents the browser's store can have (an entry with the empty key is legal).
Stores == { <<>>,
            <<[key |-> "token", value |-> "abc"]>>,
            <<[key |-> "", value |-> "x"], [key |-> "theme", value |-> ""]>> }

RECURSIVE SnapshotFrom(_, _)
\* for (i = 0; i < localStorage.length; i++) { key = key(i); if (key) push({key, value}) }
SnapshotFrom(store, i) ==
    IF i > Len(store) THEN <<>>
    ELSE LET key == store[i].key
             value == store[i].value   \* getItem(key) || ''
         IN  (IF key # "" THEN <<[key |-> key, value |-> value]>> ELSE <<>>)
             \o SnapshotFrom(store, i + 1)

LoadLocalStorageItems == SnapshotFrom(localStorage, 1)

\* The id of the next GET /documents request, in start order.
NextId == started + 1

\* ngOnInit: loadDocuments(); loadLocalStorageItems(); interval(10000)...subscribe()
NgOnInit ==
    /\ dpc = "constructed"
    /\ dpc' = "running"
    /\ dIsLoading' = TRUE
    /\ loads' = loads \cup {NextId}
    /\ started' = NextId
    /\ loadIds' = loadIds \cup {NextId}
    /\ initialId' = NextId
    /\ localStorageItems' = LoadLocalStorageItems
    /\ timerActive' = TRUE
    /\ dLast' = [kind |-> "ngOnInit", id |-> NextId, docs |-> <<>>]
    /\ UNCHANGED <<documents, localStorage, storeWrites, inner, ticks, delivered,
                   lastDelivered, newest, cancelled>>

\* A call of the public method loadDocuments() from outside the class (src
\* holds no such caller), before or after ngOnInit: isLoading = true and a
\* new GET /documents.
LoadDocuments ==
    /\ Cardinality(loadIds \ {initialId}) < MaxLoads
    /\ dIsLoading' = TRUE
    /\ loads' = loads \cup {NextId}
    /\ started' = NextId
    /\ loadIds' = loadIds \cup {NextId}
    /\ dLast' = [kind |-> "loadDocuments", id |-> NextId, docs |-> <<>>]
    /\ UNCHANGED <<documents, localStorageItems, localStorage, storeWrites, dpc, initialId,
                   timerActive, inner, ticks, delivered, lastDelivered, newest, cancelled>>

\* A call of the public method loadLocalStorageItems() from outside the class
\* (src holds no such caller), before or after ngOnInit: the snapshot is
\* taken anew.
LoadLocalStorageItemsCall ==
    /\ localStorageItems' = LoadLocalStorageItems
    /\ dLast' = [kind |-> "loadLocalStorageItems", id |-> 0, docs |-> <<>>]
    /\ UNCHANGED <<documents, dIsLoading, localStorage, storeWrites, dpc, loads, started,
                   loadIds, initialId, timerActive, inner, ticks, delivered, lastDelivered,
                   newest, cancelled>>

\* Variant: mergeMap instead of switchMap keeps every inner subscription.
MergeMapKeeps(subscribed) == subscribed

\* switchMap: the inner subscriptions that survive a new outer value (none:
\* it unsubscribes from the previous inner observable before subscribing anew).
SwitchMapKeeps(subscribed) == {}

\* An interval tick: switchMap unsubscribes from the inner fetch still in
\* flight and subscribes to a new getDocuments().
Tick ==
    /\ dpc = "running"
    /\ timerActive
    /\ ticks < MaxTicks
    /\ ticks' = ticks + 1
    /\ started' = NextId
    /\ cancelled' = cancelled \cup (inner \ SwitchMapKeeps(inner))
    /\ inner' = SwitchMapKeeps(inner) \cup {NextId}
    /\ dLast' = [kind |-> "tick", id |-> NextId, docs |-> <<>>]
    /\ UNCHANGED <<documents, dIsLoading, localStorageItems, localStorage, storeWrites, dpc,
                   loads, loadIds, initialId, timerActive, delivered, lastDelivered, newest>>

\* History of the successes: a next callback was called with docs for fetch id.
Deliver(id, docs) ==
    /\ delivered' = Append(delivered, id)
    /\ lastDelivered' = [id |-> id, docs |-> docs]
    /\ newest' = IF id > newest.id THEN [id |-> id, docs |-> docs] ELSE newest

\* Variant: the next callback clears the flag but drops the response.
LoadDocumentsNext_Dropped(docs) == [documents |-> documents, isLoading |-> FALSE]

\* loadDocuments, next callback: documents and isLoading after it.
LoadDocumentsNext(docs) == [documents |-> docs, isLoading |-> FALSE]

\* Variant: the error callback forgets the flag.
LoadDocumentsError_KeepsLoading == [documents |-> documents, isLoading |-> dIsLoading]

\* Variant: the error callback also empties the list.
LoadDocumentsError_Clears == [documents |-> <<>>, isLoading |-> FALSE]

\* loadDocuments, error callback.
LoadDocumentsError == [documents |-> documents, isLoading |-> FALSE]

\* The request id of a loadDocuments() call answers.
LoadNext(id, docs) ==
    /\ id \in loads
    /\ loads' = loads \ {id}
    /\ documents' = LoadDocumentsNext(docs).documents
    /\ dIsLoading' = LoadDocumentsNext(docs).isLoading
    /\ Deliver(id, docs)
    /\ dLast' = [kind |-> "loadNext", id |-> id, docs |-> docs]
    /\ UNCHANGED <<localStorageItems, localStorage, storeWrites, dpc, started, loadIds,
                   initialId, timerActive, inner, ticks, cancelled>>

\* The request id of a loadDocuments() call fails.
LoadError(id) ==
    /\ id \in loads
    /\ loads' = loads \ {id}
    /\ documents' = LoadDocumentsError.documents
    /\ dIsLoading' = LoadDocumentsError.isLoading
    /\ dLast' = [kind |-> "loadError", id |-> id, docs |-> <<>>]
    /\ UNCHANGED <<localStorageItems, localStorage, storeWrites, dpc, started, loadIds,
                   initialId, timerActive, inner, ticks, delivered, lastDelivered, newest,
                   cancelled>>

\* Variant: the refresh also clears the loading flag.
RefreshNext_ClearsLoading(docs) == [documents |-> docs, isLoading |-> FALSE]

\* The interval subscription's next callback.
RefreshNext(docs) == [documents |-> docs, isLoading |-> dIsLoading]

\* Variant: a failed refresh empties the list.
RefreshError_Clears == [documents |-> <<>>, isLoading |-> dIsLoading]

\* The interval subscription's error callback: it only logs.
RefreshError == [documents |-> documents, isLoading |-> dIsLoading]

\* An error of the inner observable errors the switchMap output, which
\* ends the subscription: the interval is unsubscribed.
TimerAfterError == FALSE

PeriodicNext(id, docs) ==
    /\ id \in inner
    /\ inner' = inner \ {id}
    /\ documents' = RefreshNext(docs).documents
    /\ dIsLoading' = RefreshNext(docs).isLoading
    /\ Deliver(id, docs)
    /\ dLast' = [kind |-> "periodicNext", id |-> id, docs |-> docs]
    /\ UNCHANGED <<localStorageItems, localStorage, storeWrites, dpc, loads, started,
                   loadIds, initialId, timerActive, ticks, cancelled>>

PeriodicError(id) ==
    /\ id \in inner
    /\ inner' = {}
    /\ documents' = RefreshError.documents
    /\ dIsLoading' = RefreshError.isLoading
    /\ timerActive' = TimerAfterError
    /\ dLast' = [kind |-> "periodicError", id |-> id, docs |-> <<>>]
    /\ UNCHANGED <<localStorageItems, localStorage, storeWrites, dpc, loads, started,
                   loadIds, initialId, ticks, delivered, lastDelivered, newest, cancelled>>

\* Something else (another tab, the console) changes the store.
StoreChange(s) ==
    /\ localStorage # s
    /\ localStorage' = s
    /\ UNCHANGED <<documents, dIsLoading, localStorageItems, storeWrites, dpc, loads,
                   started, loadIds, initialId, timerActive, inner, ticks, delivered,
                   lastDelivered, newest, cancelled, dLast>>

-----------------------------------------------------------------------------
(* QueryComponent *)

\* A character outside ASCII is written as its code point, "U+00A0".
\* LineTerminator of ECMAScript: LF, CR, LS, PS.
LineTerminators == {"\n", "\r", "U+2028", "U+2029"}

\* Characters String.prototype.trim removes: WhiteSpace (TAB, VT, FF, SP, NBSP,
\* ZWNBSP and the space separators) and LineTerminator of ECMAScript.
WhiteSpace ==
    {"\t", "U+000B", "\f", " ", "U+00A0", "U+FEFF",
     "U+1680", "U+2000", "U+2001", "U+2002", "U+2003", "U+2004", "U+2005",
     "U+2006", "U+2007", "U+2008", "U+2009", "U+200A", "U+202F", "U+205F",
     "U+3000"} \cup LineTerminators

RECURSIVE TrimStart(_)
TrimStart(s) ==
    IF s # <<>> /\ Head(s) \in WhiteSpace THEN TrimStart(Tail(s)) ELSE s

RECURSIVE TrimEnd(_)
TrimEnd(s) ==
    IF s # <<>> /\ s[Len(s)] \in WhiteSpace THEN TrimEnd(SubSeq(s, 1, Len(s) - 1)) ELSE s

\* String.prototype.trim
Trim(s) == TrimEnd(TrimStart(s))

\* Variant: the guard tests the raw text.
IsBlank_NoTrim(text) == text = <<>>

\* !this.query.trim()
IsBlank(text) == Trim(text) = <<>>

\* 'Please enter a query'
ValidationError == "Please enter a query"

\* 'An error occurred while processing your query. Please try again.'
RequestError == "An error occurred while processing your query. Please try again."

\* 'No relevant information found. Please rephrase or try another query.'
FallbackText ==
    <<"N", "o", " ", "r", "e", "l", "e", "v", "a", "n", "t", " ", "i", "n",
      "f", "o", "r", "m", "a", "t", "i", "o", "n", " ", "f", "o", "u", "n",
      "d", ".", " ", "P", "l", "e", "a", "s", "e", " ", "r", "e", "p", "h",
      "r", "a", "s", "e", " ", "o", "r", " ", "t", "r", "y", " ", "a", "n",
      "o", "t", "h", "e", "r", " ", "q", "u", "e", "r", "y", ".">>

\* Texts the user can have in the input field.
QueryTexts == { <<>>, <<" ", "\t", "\r", "U+00A0">>, <<"h", "i">>, <<" ", "q", "\n">> }

SourcePrefix == <<"(", "S", "o", "u", "r", "c", "e", ":", " ">>
IdTag == <<"i", "d", ":">>

\* s has pat at position i.
HasAt(s, i, pat) ==
    /\ i >= 1
    /\ i + Len(pat) - 1 <= Len(s)
    /\ \A k \in 1..Len(pat) : s[i + k - 1] = pat[k]

\* '.' matches every character of s[from..to] (no line terminator among them).
AllDot(s, from, to) == \A k \in from..to : s[k] \notin LineTerminators

Least(S) == CHOOSE x \in S : \A y \in S : x <= y

\* /id:(.*?)\)/ tried at position q of s: the positions of the ')' that can
\* close the lazy group.
IdCloses(s, q) ==
    IF HasAt(s, q, IdTag)
    THEN { r \in (q + 3)..Len(s) : s[r] = ")" /\ AllDot(s, q + 3, r - 1) }
    ELSE {}

\* /\(Source: .*?id:(.*?)\)/ tried at position p of s: the position of the
\* last character of the match, 0 if there is no match at p.
SourceMatchEnd(s, p) ==
    IF ~HasAt(s, p, SourcePrefix) THEN 0
    ELSE LET from == p + Len(SourcePrefix)
             qs == { q \in from..Len(s) : AllDot(s, from, q - 1) /\ IdCloses(s, q) # {} }
         IN  IF qs = {} THEN 0 ELSE Least(IdCloses(s, Least(qs)))

RECURSIVE SourceMatchesFrom(_, _)
\* answerText.match(/\(Source: .*?id:(.*?)\)/g), scanning from position i.
SourceMatchesFrom(s, i) ==
    IF i > Len(s) THEN <<>>
    ELSE LET e == SourceMatchEnd(s, i)
         IN  IF e = 0 THEN SourceMatchesFrom(s, i + 1)
             ELSE <<SubSeq(s, i, e)>> \o SourceMatchesFrom(s, e + 1)

\* match.match(/id:(.*?)\)/): idMatch ? idMatch[1].trim() : ''
IdOf(match) ==
    LET qs == { q \in 1..Len(match) : IdCloses(match, q) # {} }
    IN  IF qs = {} THEN <<>>
        ELSE LET q == Least(qs)
                 r == Least(IdCloses(match, q))
             IN  Trim(SubSeq(match, q + 3, r - 1))

RECURSIVE MapIdOf(_)
MapIdOf(ms) == IF ms = <<>> THEN <<>> ELSE <<IdOf(Head(ms))>> \o MapIdOf(Tail(ms))

\* Variant: the ids are not passed through a Set.
Unique_KeepsAll(xs) == xs

RECURSIVE Unique(_)
\* [...new Set(xs)]: first occurrences, in order.
Unique(xs) ==
    IF xs = <<>> THEN <<>>
    ELSE LET init == Unique(SubSeq(xs, 1, Len(xs) - 1))
             x == xs[Len(xs)]
         IN  IF \E i \in DOMAIN init : init[i] = x THEN init ELSE Append(init, x)

\* .filter((id) => id)
NonEmpty(xs) == SelectSeq(xs, LAMBDA id : id # <<>>)

\* The regex branch of the next callback.
ExtractSources(answerText) == NonEmpty(Unique(MapIdOf(SourceMatchesFrom(answerText, 1))))

\* Bodies POST /query can answer with; a field a body lacks is absent here.
AnswerPlain == <<"o", "k">>
AnswerCited ==
    <<"P", " ", "(", "S", "o", "u", "r", "c", "e", ":", " ", "d", "1", ",",
      " ", "i", "d", ":", "4", "2", ")", " ", "(", "S", "o", "u", "r", "c",
      "e", ":", " ", "d", "2", ",", " ", "i", "d", ":", "4", "2", ")", " ",
      "(", "S", "o", "u", "r", "c", "e", ":", " ", "d", "3", ",", " ", "i",
      "d", ":", " ", "7", " ", ")">>

Responses ==
    { [unused |-> TRUE],
      [answer |-> <<>>, source_documents |-> <<<<"a">>, <<"b">>>>],
      [answer |-> <<" ", "\n">>],
      [answer |-> AnswerPlain, source_documents |-> <<<<"x">>, <<"x">>>>],
      [answer |-> AnswerCited] }

\* More bodies, for the derivation of the assistant entry.
AnswerCitedLoose ==
    <<"(", "S", "o", "u", "r", "c", "e", ":", " ", "a", " ", "i", "d", ":",
      " ", "7", " ", ")", "(", "S", "o", "u", "r", "c", "e", ":", " ", "b",
      " ", "i", "d", ":", ")", "\n", "(", "S", "o", "u", "r", "c", "e",
      ":", " ", "c", " ", "i", "d", ":", "7", ")", "(", "S", "o", "u", "r",
      "c", "e", ":", " ", "d", " ", "i", "d", ":", " ", " ", ")", " ", "(",
      "S", "o", "u", "r", "c", "e", ":", " ", "e", " ", "i", "d", ":", "4",
      "2">>

\* An answer whose citations hold line terminators, which "." does not match:
\* "(Source: a\rid:1) (Source: b id:2 )(Source: c id: 3)".
AnswerCitedLines ==
    <<"(", "S", "o", "u", "r", "c", "e", ":", " ", "a", "\r", "i", "d", ":",
      "1", ")", " ", "(", "S", "o", "u", "r", "c", "e", ":", " ", "b", " ",
      "i", "d", ":", "2", "U+00A0", ")", "(", "S", "o", "u", "r", "c", "e",
      ":", " ", "c", " ", "i", "d", ":", "U+2028", "3", ")">>

AllResponses ==
    Responses \cup
    { [source_documents |-> <<<<"a">>>>],
      [answer |-> <<"\r", "\n", "U+00A0">>],
      [answer |-> AnswerCitedLines],
      [answer |-> <<"\t">>, source_documents |-> <<>>],
      [answer |-> AnswerPlain],
      [answer |-> AnswerCited, source_documents |-> <<<<"x">>, <<"d", "1">>, <<"x">>>>],
      [answer |-> AnswerCited, source_documents |-> <<>>],
      [answer |-> AnswerCitedLoose] }

\* No next callback has run yet.
NoResponse == [none |-> TRUE]

Has(response, field) == field \in DOMAIN response

\* Variant: the answer is tested for emptiness only, not trimmed.
HasAnswer_NoTrim(response) ==
    /\ Has(response, "answer")
    /\ response.answer # <<>>

\* response?.answer && response.answer.trim()
HasAnswer(response) ==
    /\ Has(response, "answer")
    /\ response.answer # <<>>
    /\ Trim(response.answer) # <<>>

\* Variant: the explicit list goes through the Set as the extracted ids do.
AssistantMessage_DedupExplicit(response) ==
    IF HasAnswer(response)
    THEN [role |-> "assistant",
          content |-> response.answer,
          sources |-> IF Has(response, "source_documents")
                      THEN Unique(response.source_documents)
                      ELSE ExtractSources(response.answer)]
    ELSE [role |-> "assistant", content |-> FallbackText, sources |-> <<>>]

\* The assistant entry the next callback builds from a response.
AssistantMessage(response) ==
    IF HasAnswer(response)
    THEN [role |-> "assistant",
          content |-> response.answer,
          sources |-> IF Has(response, "source_documents")
                      THEN response.source_documents
                      ELSE ExtractSources(response.answer)]
    ELSE [role |-> "assistant", content |-> FallbackText, sources |-> <<>>]

\* The user types into the input field bound to this.query.
SetQuery(text) ==
    /\ query # text
    /\ query' = text
    /\ UNCHANGED <<isLoading, errorMessage, messages, pending, posted, msgReq, failed, qLast,
                   lastResponse>>

\* Variant: submitQuery also returns early while a request is in flight.
CanSubmit_WhenIdle(text) == ~IsBlank(text) /\ ~isLoading

\* submitQuery goes past its guard: the only test is the blank check.
CanSubmit(text) == ~IsBlank(text)

\* History: the entries a handler added to the transcript belong to request id.
Attribute(id, after) ==
    msgReq \o [i \in 1..(Len(after) - Len(messages)) |-> id]

\* submitQuery, blank text: the early return.
SubmitRejected ==
    /\ IsBlank(query)
    /\ errorMessage' = ValidationError
    /\ qLast' = [kind |-> "rejected", id |-> 0]
    /\ UNCHANGED <<query, isLoading, messages, pending, posted, msgReq, failed, lastResponse>>

\* Variant: the user entry carries the trimmed text.
PushUser_Trimmed(text) == Append(messages, [role |-> "user", content |-> Trim(text)])

\* Variant: the user entry is put in front of the transcript.
PushUser_Unshift(text) == <<[role |-> "user", content |-> text]>> \o messages

\* The transcript after submitQuery accepted the text.
PushUser(text) == Append(messages, [role |-> "user", content |-> text])

\* submitQuery, non-blank text: up to and including the subscribe() call.
SubmitAccepted ==
    /\ CanSubmit(query)
    /\ posted < MaxSubmits
    /\ isLoading' = TRUE
    /\ errorMessage' = ""
    /\ messages' = PushUser(query)
    /\ query' = <<>>
    /\ posted' = posted + 1
    /\ pending' = pending \cup {[id |-> posted + 1, body |-> [query |-> query]]}
    /\ msgReq' = Attribute(posted + 1, messages')
    /\ qLast' = [kind |-> "submitted", id |-> posted + 1]
    /\ UNCHANGED <<failed, lastResponse>>

SubmitQuery == SubmitRejected \/ SubmitAccepted

\* Variant: the next callback pushes the entry twice.
PushAssistant_Twice(response) ==
    Append(Append(messages, AssistantMessage(response)), AssistantMessage(response))

\* Variant: the next callback builds the entry but does not push it.
PushAssistant_Dropped(response) == messages

\* Variant: a callback leaves the flag as it found it.
LoadingAfterResolve_Stuck == isLoading

\* this.isLoading = false, the last statement of the next and error callbacks.
LoadingAfterResolve == FALSE

\* The transcript after the next callback of a request.
PushAssistant(response) == Append(messages, AssistantMessage(response))

\* The next callback of request req, called with the response body.
QueryNext(req, response) ==
    /\ req \in pending
    /\ pending' = pending \ {req}
    /\ messages' = PushAssistant(response)
    /\ isLoading' = LoadingAfterResolve
    /\ msgReq' = Attribute(req.id, messages')
    /\ qLast' = [kind |-> "next", id |-> req.id]
    /\ lastResponse' = response
    /\ UNCHANGED <<query, errorMessage, posted, failed>>

\* Variant: the error callback takes the last entry back.
MessagesAfterError_Rollback == SubSeq(messages, 1, Len(messages) - 1)

\* No key pressed yet.
NoKey == [key |-> "", shiftKey |-> FALSE, defaultPrevented |-> FALSE]

\* Keys the user can press in the input field.
Keys == {"Enter", "a"}

\* Variant: the Shift modifier is not looked at.
KeySubmits_IgnoresShift(key, shiftKey) == key = "Enter"

\* event.key === 'Enter' && !event.shiftKey
KeySubmits(key, shiftKey) == key = "Enter" /\ ~shiftKey

\* The transcript after the error callback of a request.
MessagesAfterError == messages

\* The error callback of request req.
QueryError(req) ==
    /\ req \in pending
    /\ pending' = pending \ {req}
    /\ messages' = MessagesAfterError
    /\ errorMessage' = RequestError
    /\ isLoading' = LoadingAfterResolve
    /\ msgReq' = Attribute(req.id, messages')
    /\ failed' = failed \cup {req.id}
    /\ qLast' = [kind |-> "error", id |-> req.id]
    /\ UNCHANGED <<query, posted, lastResponse>>

\* onKeydown(event): preventDefault() and submitQuery() on Enter without Shift.
OnKeydown(key, shiftKey) ==
    /\ keyEvent' = [key |-> key, shiftKey |-> shiftKey,
                    defaultPrevented |-> KeySubmits(key, shiftKey)]
    /\ IF KeySubmits(key, shiftKey) THEN SubmitQuery ELSE UNCHANGED qvars

-----------------------------------------------------------------------------
(* Specifications *)

DocInit ==
    /\ documents = <<>>
    /\ dIsLoading = TRUE
    /\ localStorageItems = <<>>
    /\ localStorage \in Stores
    /\ storeWrites = 0
    /\ dpc = "constructed"
    /\ loads = {}
    /\ started = 0
    /\ loadIds = {}
    /\ initialId = 0
    /\ timerActive = FALSE
    /\ inner = {}
    /\ ticks = 0
    /\ delivered = <<>>
    /\ lastDelivered = [id |-> 0, docs |-> <<>>]
    /\ newest = [id |-> 0, docs |-> <<>>]
    /\ cancelled = {}
    /\ dLast = [kind |-> "constructor", id |-> 0, docs |-> <<>>]

QueryInit ==
    /\ query = <<>>
    /\ isLoading = FALSE
    /\ errorMessage = ""
    /\ messages = <<>>
    /\ pending = {}
    /\ posted = 0
    /\ msgReq = <<>>
    /\ failed = {}
    /\ qLast = [kind |-> "constructor", id |-> 0]
    /\ lastResponse = NoResponse

KeyInit == keyEvent = NoKey

Init == DocInit /\ QueryInit /\ KeyInit

DocumentListNext ==
    \/ NgOnInit /\ UNCHANGED <<qvars, kvars>>
    \/ Tick /\ UNCHANGED <<qvars, kvars>>
    \/ LoadDocuments /\ UNCHANGED <<qvars, kvars>>
    \/ LoadLocalStorageItemsCall /\ UNCHANGED <<qvars, kvars>>
    \/ \E id \in loads, docs \in DocLists : LoadNext(id, docs) /\ UNCHANGED <<qvars, kvars>>
    \/ \E id \in loads : LoadError(id) /\ UNCHANGED <<qvars, kvars>>
    \/ \E id \in inner, docs \in DocLists : PeriodicNext(id, docs) /\ UNCHANGED <<qvars, kvars>>
    \/ \E id \in inner : PeriodicError(id) /\ UNCHANGED <<qvars, kvars>>
    \/ \E s \in Stores : StoreChange(s) /\ UNCHANGED <<qvars, kvars>>

DocSpec == Init /\ [][DocumentListNext]_vars

\* The component's operations over a store nothing else changes.
FetchInit == Init /\ localStorage = <<[key |-> "token", value |-> "abc"]>>

FetchNext ==
    \/ NgOnInit /\ UNCHANGED <<qvars, kvars>>
    \/ LoadDocuments /\ UNCHANGED <<qvars, kvars>>
    \/ LoadLocalStorageItemsCall /\ UNCHANGED <<qvars, kvars>>
    \/ Tick /\ UNCHANGED <<qvars, kvars>>
    \/ \E id \in loads, docs \in DocLists : LoadNext(id, docs) /\ UNCHANGED <<qvars, kvars>>
    \/ \E id \in loads : LoadError(id) /\ UNCHANGED <<qvars, kvars>>
    \/ \E id \in inner, docs \in DocLists : PeriodicNext(id, docs) /\ UNCHANGED <<qvars, kvars>>
    \/ \E id \in inner : PeriodicError(id) /\ UNCHANGED <<qvars, kvars>>

FetchSpec == FetchInit /\ [][FetchNext]_vars

QueryComponentNext ==
    \/ \E text \in QueryTexts : SetQuery(text) /\ UNCHANGED <<dvars, kvars>>
    \/ SubmitQuery /\ UNCHANGED <<dvars, kvars>>
    \/ \E req \in pending, response \in Responses : QueryNext(req, response) /\ UNCHANGED <<dvars, kvars>>
    \/ \E req \in pending : QueryError(req) /\ UNCHANGED <<dvars, kvars>>

\* The query view is routed on its own: the document list stays unconstructed.
\* Texts of the input field and bodies for the derivation of the assistant entry.
AnswerTexts == { <<>>, <<"\r">>, <<"h", "i">> }

AnswerNext ==
    \/ \E text \in AnswerTexts : SetQuery(text) /\ UNCHANGED <<dvars, kvars>>
    \/ SubmitQuery /\ UNCHANGED <<dvars, kvars>>
    \/ \E req \in pending, response \in AllResponses : QueryNext(req, response) /\ UNCHANGED <<dvars, kvars>>
    \/ \E req \in pending : QueryError(req) /\ UNCHANGED <<dvars, kvars>>

\* Bodies for the keyboard-driven view.
KeyResponses == { [unused |-> TRUE], [answer |-> AnswerPlain] }

\* The query view driven from the keyboard.
KeyNext ==
    \/ \E text \in QueryTexts : SetQuery(text) /\ UNCHANGED <<dvars, kvars>>
    \/ \E key \in Keys, shiftKey \in BOOLEAN : OnKeydown(key, shiftKey) /\ UNCHANGED dvars
    \/ \E req \in pending, response \in KeyResponses :
          QueryNext(req, response) /\ UNCHANGED <<dvars, kvars>>
    \/ \E req \in pending : QueryError(req) /\ UNCHANGED <<dvars, kvars>>

QueryViewInit == Init /\ localStorage = <<>>

QuerySpec == QueryViewInit /\ [][QueryComponentNext]_vars

AnswerSpec == QueryViewInit /\ [][AnswerNext]_vars

KeySpec == QueryViewInit /\ [][KeyNext]_vars

-----------------------------------------------------------------------------
(* Properties of the document list, checked under FetchSpec *)

\* The requests issued by calls of loadDocuments() from outside the class; src
\* has none, ngOnInit being the only caller.
ExternalLoads == loadIds \ {initialId}

\* The fetches that have succeeded, as the component saw them.
SucceededIds == { delivered[i] : i \in DOMAIN delivered }

\* C3 as stated: in every reachable state, documents equals the result of the most
\* recently started fetch that has succeeded (an older fetch's response never
\* overwrites a newer fetch's result); refuted with ngOnInit's fetch alone.
C3_Original ==
    (ExternalLoads = {} /\ delivered # <<>>) => documents = newest.docs

\* Start orders of the periodic fetches delivered, in delivery order.
RECURSIVE PeriodicIds(_)
PeriodicIds(d) ==
    IF d = <<>> THEN <<>>
    ELSE (IF Head(d) \notin loadIds THEN <<Head(d)>> ELSE <<>>) \o PeriodicIds(Tail(d))

Increasing(ids) == \A i, j \in DOMAIN ids : i < j => ids[i] < ids[j]

\* C3 amended: documents equals the result of the success delivered last
\* (empty before any); among the periodic fetches a response of an older one
\* never follows that of a newer one, but the response of a loadDocuments()
\* fetch (the initial one included), delivered late, replaces the result of a
\* fetch started after it.
C3_LastDeliveredFetchWins ==
    /\ documents = lastDelivered.docs
    /\ (delivered = <<>> <=> lastDelivered.id = 0)
    /\ (delivered # <<>> => lastDelivered.id = delivered[Len(delivered)])
    /\ Increasing(PeriodicIds(delivered))

\* C3 witness: the initial fetch was delivered after a newer periodic fetch
\* and its result, not the periodic one, is held.
C3_Witness ==
    /\ ExternalLoads = {}
    /\ Len(delivered) >= 2
    /\ delivered[Len(delivered)] = initialId
    /\ delivered[Len(delivered) - 1] > initialId
    /\ delivered[Len(delivered) - 1] \notin loadIds
    /\ newest.id = delivered[Len(delivered) - 1]
    /\ documents = <<DocA>>
    /\ newest.docs = <<DocB, DocA>>

\* C4 as stated: the background resync never stops on failure: after ngOnInit the
\* interval subscription stays live, also after a periodic fetch has failed,
\* so that a later tick still starts a fetch.
C4_ResyncSurvivesFailure ==
    dpc = "running" => timerActive

\* C5: a failed periodic fetch leaves documents and isLoading exactly as they
\* were; a successful periodic fetch replaces documents by the fetched
\* sequence, whatever was held before.
C5_PeriodicFetchFrame ==
    [][ /\ (dLast' # dLast /\ dLast'.kind = "periodicError")
             => (documents' = documents /\ dIsLoading' = dIsLoading)
        /\ (dLast' # dLast /\ dLast'.kind = "periodicNext")
             => documents' = dLast'.docs ]_vars

\* C5 witness: a periodic fetch has just failed while the list loaded by an
\* earlier periodic fetch is held and the initial fetch is still loading.
C5_Witness ==
    /\ ExternalLoads = {}
    /\ dLast.kind = "periodicError"
    /\ documents = <<DocB, DocA>>
    /\ dIsLoading
    /\ initialId \in loads
    /\ lastDelivered.id \notin loadIds
    /\ lastDelivered.docs = <<DocB, DocA>>

\* The request ngOnInit's loadDocuments() issued has just failed.
InitialFailed == dLast.kind = "loadError" /\ dLast.id = initialId

\* C6 as stated: right after the initial fetch fails, documents is empty and
\* isLoading is false, in every interleaving with the periodic fetches.
C6_Original ==
    (ExternalLoads = {} /\ InitialFailed) => (documents = <<>> /\ dIsLoading = FALSE)

\* C6 amended: the failure of the initial fetch (of any loadDocuments() fetch)
\* clears isLoading and leaves documents unchanged; right after the failure
\* documents is the result of the last fetch that had delivered before, and
\* empty exactly when none had delivered a non-empty sequence.
C6_InitialFailureKeepsDocuments ==
    /\ [][ (dLast' # dLast /\ dLast'.kind = "loadError")
             => (dIsLoading' = FALSE /\ documents' = documents) ]_vars
    /\ [](dLast.kind = "loadError" =>
            /\ dIsLoading = FALSE
            /\ documents = lastDelivered.docs)

\* C6 witness: the initial fetch has just failed after a periodic fetch had
\* succeeded, and the periodic result is still held.
C6_Witness ==
    /\ ExternalLoads = {}
    /\ InitialFailed
    /\ documents # <<>>
    /\ dIsLoading = FALSE
    /\ lastDelivered.id # 0
    /\ lastDelivered.id \notin loadIds

\* C7 as stated: no document fetch is ever cancelled.
C7_Original ==
    ExternalLoads = {} => cancelled = {}

\* C7 amended: a loadDocuments() fetch (the initial one included) is never
\* cancelled and resolves independently of the others; a periodic fetch still
\* in flight at the next tick is unsubscribed and never delivers, so at most
\* one periodic fetch is live (the newest); every delivered success sets
\* documents, the last one delivered determining its value.
C7_OnlySupersededPeriodicCancelled ==
    /\ loadIds \cap cancelled = {}
    /\ cancelled \cap SucceededIds = {}
    /\ cancelled \cap inner = {}
    /\ Cardinality(inner) <= 1
    /\ \A i \in inner : \A o \in cancelled \cup (SucceededIds \ loadIds) : o < i
    /\ (dLast.kind \in {"loadNext", "periodicNext"} => documents = dLast.docs)

\* C7 witness: a periodic fetch was cancelled by a later tick, and the initial
\* fetch, in flight all the while, delivered after a periodic fetch had.
C7_Witness ==
    /\ ExternalLoads = {}
    /\ cancelled # {}
    /\ dLast.kind = "loadNext"
    /\ dLast.id = initialId
    /\ newest.id \notin loadIds
    /\ newest.docs # documents

-----------------------------------------------------------------------------
(* Properties of the query component, checked under QuerySpec *)

\* Empty or made of white space only.
AllWhiteSpace(text) == \A i \in DOMAIN text : text[i] \in WhiteSpace

IsPrefix(old, new) ==
    Len(old) <= Len(new) /\ SubSeq(new, 1, Len(old)) = old

PendingIds == { r.id : r \in pending }

\* Requests whose next callback ran.
ResolvedOk == (1..posted) \ (PendingIds \cup failed)

\* Positions of the transcript entries of a role that belong to request id.
EntriesOf(id, role) ==
    { i \in DOMAIN messages : i \in DOMAIN msgReq /\ msgReq[i] = id /\ messages[i].role = role }

\* C1: a submitQuery on empty or whitespace-only text issues no HTTP request,
\* sets the validation error and leaves messages, isLoading and the input
\* text unchanged; so no request and no user entry ever carries blank text.
C1_BlankQueryRejected ==
    /\ [][ (SubmitQuery /\ AllWhiteSpace(query))
             => /\ posted' = posted
                /\ pending' = pending
                /\ errorMessage' = ValidationError
                /\ messages' = messages
                /\ isLoading' = isLoading
                /\ query' = query ]_vars
    /\ [](/\ \A r \in pending : ~AllWhiteSpace(r.body.query)
          /\ \A i \in DOMAIN messages :
                messages[i].role = "user" => ~AllWhiteSpace(messages[i].content))

\* C1 witness: a whitespace-only text was rejected while an earlier request
\* was still in flight: the transcript and the loading flag are as before.
C1_Witness ==
    /\ qLast.kind = "rejected"
    /\ query = <<" ", "\t", "\r", "U+00A0">>
    /\ errorMessage = ValidationError
    /\ Len(messages) = 1
    /\ isLoading
    /\ posted = 1

\* C2 as stated: every accepted submission has its user entry from the start
\* and, once its request has resolved (success or failure), exactly one
\* assistant entry.
C2_Original ==
    \A id \in 1..posted :
        /\ Cardinality(EntriesOf(id, "user")) = 1
        /\ (id \notin PendingIds => Cardinality(EntriesOf(id, "assistant")) = 1)

\* C2 amended: every accepted submission has its user entry from the start,
\* before its request resolves; once the request has resolved it has exactly
\* one assistant entry if it resolved with success and none if it failed.
C2_AssistantEntryOnSuccessOnly ==
    /\ Len(msgReq) = Len(messages)
    /\ \A id \in 1..posted :
        /\ Cardinality(EntriesOf(id, "user")) = 1
        /\ Cardinality(EntriesOf(id, "assistant")) = (IF id \in ResolvedOk THEN 1 ELSE 0)

\* C2 witness: two submissions have resolved, one with success and one with
\* failure.
C2_Witness ==
    /\ posted = 2
    /\ pending = {}
    /\ Cardinality(failed) = 1
    /\ Len(messages) = 3

\* C8: while a request is in flight (isLoading true) a non-blank submitQuery
\* still goes through: it appends its user entry and posts its own request;
\* each next callback appends one assistant entry at the end of the
\* transcript, at the time it arrives, and leaves the other requests in
\* flight.
C8_SecondSubmitNotBlocked ==
    /\ []((isLoading /\ ~AllWhiteSpace(query) /\ posted < MaxSubmits)
            => ENABLED SubmitAccepted)
    /\ [][ (SubmitQuery /\ isLoading /\ ~AllWhiteSpace(query))
             => /\ messages' = Append(messages, [role |-> "user", content |-> query])
                /\ posted' = posted + 1
                /\ pending' = pending \cup {[id |-> posted', body |-> [query |-> query]]} ]_vars
    /\ [][ \A req \in pending :
              (qLast' # qLast /\ qLast' = [kind |-> "next", id |-> req.id])
              => /\ IsPrefix(messages, messages')
                 /\ Len(messages') = Len(messages) + 1
                 /\ messages'[Len(messages')].role = "assistant"
                 /\ pending' = pending \ {req} ]_vars

\* C8 witness: two requests were in flight together and the second one's
\* response arrived first; the assistant entries are in arrival order.
C8_Witness ==
    /\ msgReq = <<1, 2, 2, 1>>
    /\ Len(messages) = 4
    /\ messages[3].role = "assistant" /\ messages[4].role = "assistant"
    /\ messages[3].content # messages[4].content

\* C9: the transcript only grows at its end (no entry is removed, moved or
\* changed), and every assistant entry comes after the user entry of the
\* submission whose response produced it.
C9_TranscriptAppendOnly ==
    /\ [][IsPrefix(messages, messages')]_vars
    /\ [](\A i \in DOMAIN messages :
            messages[i].role = "assistant"
            => \E j \in 1..(i - 1) :
                 /\ messages[j].role = "user"
                 /\ j \in DOMAIN msgReq /\ i \in DOMAIN msgReq
                 /\ msgReq[j] = msgReq[i])

\* C9 witness: two overlapping submissions, answered in submission order.
C9_Witness ==
    /\ msgReq = <<1, 2, 1, 2>>
    /\ Len(messages) = 4
    /\ messages[1].role = "user" /\ messages[2].role = "user"
    /\ messages[3].role = "assistant" /\ messages[4].role = "assistant"

\* C10: the error callback sets the fixed error message, clears isLoading and
\* leaves the transcript as it was: the failed submission's user entry stays
\* and nothing is added.
C10_FailureKeepsTranscript ==
    /\ [][ (qLast' # qLast /\ qLast'.kind = "error")
             => /\ errorMessage' = RequestError
                /\ isLoading' = FALSE
                /\ messages' = messages ]_vars
    /\ [](qLast.kind = "error"
            => /\ errorMessage = "An error occurred while processing your query. Please try again."
               /\ ~isLoading
               /\ Cardinality(EntriesOf(qLast.id, "user")) = 1
               /\ EntriesOf(qLast.id, "assistant") = {})

\* C10 witness: a request has just failed while another one is still in
\* flight; both user entries are in the transcript.
C10_Witness ==
    /\ qLast.kind = "error"
    /\ pending # {}
    /\ Len(messages) = 2
    /\ ~isLoading

\* C11 as stated: from the moment a submission is accepted until its own
\* request resolves the controller is Submitting: isLoading is true as long
\* as the request is in flight.
C11_Original ==
    pending # {} => isLoading

\* C11 amended: isLoading becomes true when a submission is accepted and
\* becomes false when any request resolves, its own or another one that
\* overlaps it; it is therefore true from acceptance until the next
\* resolution of any request, and it changes at no other step.
C11_LoadingUntilNextResolution ==
    /\ [][ (~isLoading /\ isLoading')
             => (posted' = posted + 1 /\ qLast'.kind = "submitted") ]_vars
    /\ [][ (isLoading /\ ~isLoading')
             => \E req \in pending : pending' = pending \ {req} ]_vars
    /\ [][ (\E req \in pending : pending' = pending \ {req}) => ~isLoading' ]_vars
    /\ [](qLast.kind = "submitted" => isLoading)
    /\ [](isLoading => pending # {})

\* C11 witness: of two overlapping requests one has resolved with success and
\* cleared isLoading while the other is still in flight.
C11_Witness ==
    /\ qLast.kind = "next"
    /\ pending # {}
    /\ ~isLoading

-----------------------------------------------------------------------------
(* Properties of the assistant entry, checked under AnswerSpec *)

\* The answer field is missing, empty or made of white space only.
BlankAnswer(response) ==
    ("answer" \notin DOMAIN response) \/ AllWhiteSpace(response.answer)

\* The entry at the end of the transcript.
LastMessage == messages[Len(messages)]

\* The next callback has just run on lastResponse.
JustAnswered == qLast.kind = "next" /\ messages # <<>>

\* C12: a response whose answer is missing, empty or whitespace-only gives an
\* assistant entry with the fixed fallback text and no sources, whatever
\* source_documents it carries.
C12_BlankAnswerFallback ==
    (qLast.kind = "next" /\ BlankAnswer(lastResponse))
    => /\ messages # <<>>
       /\ LastMessage.role = "assistant"
       /\ LastMessage.content = FallbackText
       /\ LastMessage.sources = <<>>

\* C12 witness: the response {answer: "", source_documents: ["a", "b"]} has
\* just been turned into the fallback entry without sources.
C12_Witness ==
    /\ JustAnswered
    /\ lastResponse = [answer |-> <<>>, source_documents |-> <<<<"a">>, <<"b">>>>]
    /\ LastMessage.content = FallbackText
    /\ LastMessage.sources = <<>>

\* C13: a response with a non-blank answer and a source_documents sequence
\* gives an assistant entry whose content is the answer as received and whose
\* sources are source_documents as received (same elements, same order,
\* duplicates kept), also when the answer contains citation markers.
C13_ExplicitSourcesVerbatim ==
    (qLast.kind = "next" /\ ~BlankAnswer(lastResponse)
        /\ "source_documents" \in DOMAIN lastResponse)
    => /\ messages # <<>>
       /\ LastMessage = [role |-> "assistant",
                         content |-> lastResponse.answer,
                         sources |-> lastResponse.source_documents]

\* C13 witness: an answer with citation markers came with the explicit list
\* ["x", "d1", "x"], and the entry has exactly that list.
C13_Witness ==
    /\ JustAnswered
    /\ lastResponse = [answer |-> AnswerCited,
                       source_documents |-> <<<<"x">>, <<"d", "1">>, <<"x">>>>]
    /\ LastMessage.sources = <<<<"x">>, <<"d", "1">>, <<"x">>>>
    /\ LastMessage.content = AnswerCited

\* The ids the citation markers of the answers used here carry, as the claim
\* reads them: in order of occurrence, trimmed, first occurrences only, empty
\* ones dropped.
ExpectedSources(answer) ==
    CASE answer = AnswerCited -> <<<<"4", "2">>, <<"7">>>>
      [] answer = AnswerCitedLoose -> <<<<"7">>>>
      [] answer = AnswerCitedLines -> <<<<"2">>>>
      [] OTHER -> <<>>

\* C14: a response with a non-blank answer and no source_documents field gives
\* an assistant entry whose sources are the ids of the citation markers of the
\* answer: in order of occurrence, trimmed, without duplicates (first
\* occurrence kept) and without empty ids; markers 42, 42, 7 give 42, 7.
C14_ExtractedSources ==
    (qLast.kind = "next" /\ ~BlankAnswer(lastResponse)
        /\ "source_documents" \notin DOMAIN lastResponse)
    => /\ messages # <<>>
       /\ LastMessage.content = lastResponse.answer
       /\ LastMessage.sources = ExpectedSources(lastResponse.answer)
       /\ \A i \in DOMAIN LastMessage.sources :
             /\ LastMessage.sources[i] # <<>>
             /\ Trim(LastMessage.sources[i]) = LastMessage.sources[i]
             /\ \A j \in DOMAIN LastMessage.sources :
                   LastMessage.sources[i] = LastMessage.sources[j] => i = j

\* C14 witness: the answer with markers 42, 42, 7 and no source_documents
\* has just given the sources 42, 7.
C14_Witness ==
    /\ JustAnswered
    /\ lastResponse = [answer |-> AnswerCited]
    /\ LastMessage.sources = <<<<"4", "2">>, <<"7">>>>

-----------------------------------------------------------------------------
(* Properties of the keyboard handler, checked under KeySpec *)

\* C15: a keydown of Enter without Shift runs submitQuery once and prevents
\* the default action; a keydown of Enter with Shift, or of another key, runs
\* nothing: the controller state is unchanged and the default is not prevented.
C15_EnterSubmitsOnce ==
    /\ [][ \A key \in Keys, shiftKey \in BOOLEAN :
              OnKeydown(key, shiftKey)
              => IF key = "Enter" /\ ~shiftKey
                 THEN /\ SubmitQuery
                      /\ posted' \in {posted, posted + 1}
                      /\ Len(messages') = Len(messages) + (posted' - posted)
                      /\ keyEvent'.defaultPrevented
                 ELSE /\ UNCHANGED qvars
                      /\ ~keyEvent'.defaultPrevented ]_vars
    /\ [](keyEvent.defaultPrevented <=> (keyEvent.key = "Enter" /\ ~keyEvent.shiftKey))

\* C15 witness: Enter without Shift has just submitted a second text, after a
\* first submission made the same way.
C15_Witness ==
    /\ keyEvent = [key |-> "Enter", shiftKey |-> FALSE, defaultPrevented |-> TRUE]
    /\ qLast = [kind |-> "submitted", id |-> 2]
    /\ posted = 2
    /\ Len(messages) >= 2

-----------------------------------------------------------------------------
(* Further properties of the document list, checked under FetchSpec (C18: DocSpec) *)

\* What the document list view can show.
Visible == <<documents, dIsLoading, localStorageItems>>

\* What the view shows once a load has succeeded with docs.
VisibleLoaded(docs) == <<docs, FALSE, localStorageItems>>

\* C16 as stated: a failure of the initial load is surfaced to the user: what
\* the view shows right after it is not what it shows after a successful load.
C16_Original ==
    (ExternalLoads = {} /\ InitialFailed) => \A docs \in DocLists : Visible # VisibleLoaded(docs)

\* C16 amended: a failure of the initial load (of any loadDocuments() fetch)
\* sets no error message: it only
\* clears isLoading, so that the view shows what it shows after a successful
\* load of the list it already held; a failure of a background resync changes
\* nothing the view shows.
C16_FailuresNotSurfaced ==
    /\ [][ (dLast' # dLast /\ dLast'.kind = "loadError")
             => /\ dIsLoading' = FALSE
                /\ documents' = documents
                /\ localStorageItems' = localStorageItems ]_vars
    /\ [](dLast.kind = "loadError" => \E docs \in DocLists : Visible = VisibleLoaded(docs))
    /\ [][ (dLast' # dLast /\ dLast'.kind = "periodicError") => Visible' = Visible ]_vars

\* C16 witness: the initial load has just failed before any fetch succeeded:
\* the view shows an empty list, not loading.
C16_Witness ==
    /\ ExternalLoads = {}
    /\ InitialFailed
    /\ delivered = <<>>
    /\ Visible = VisibleLoaded(<<>>)

\* C18 as stated: localStorageItems is, from ngOnInit on, the snapshot of the
\* entries the store had at that moment; nothing changes it later and this
\* code never writes to the store.
C18_StoreSnapshotOnce ==
    /\ [][ (dpc = "constructed" /\ dpc' = "running")
             => localStorageItems' = localStorage ]_vars
    /\ [][ dpc = "running" => localStorageItems' = localStorageItems ]_vars
    /\ [](storeWrites = 0)

\* C19: in the program as src has it, where ngOnInit makes the only
\* loadDocuments() call, isLoading of the document list is true from
\* construction until the initial fetch resolves and false from then on, and
\* once false it stays false; ticks and periodic fetches never change it,
\* whoever else calls.
C19_LoadingFollowsInitialFetch ==
    /\ [](ExternalLoads = {} => (dIsLoading <=> (initialId = 0 \/ initialId \in loads)))
    /\ [][ ExternalLoads' = {} => (~dIsLoading => ~dIsLoading') ]_vars
    /\ [][ (dLast' # dLast /\ dLast'.kind \in {"tick", "periodicNext", "periodicError"})
             => dIsLoading' = dIsLoading ]_vars

\* C19 witness: with no call but ngOnInit's, a periodic fetch has populated
\* documents while the initial fetch is still in flight and isLoading still
\* true.
C19_Witness ==
    /\ ExternalLoads = {}
    /\ dLast.kind = "periodicNext"
    /\ documents # <<>>
    /\ dIsLoading
    /\ initialId \in loads

-----------------------------------------------------------------------------
(* Further properties of the query component, checked under QuerySpec *)

\* C17: an accepted submitQuery, in one step, appends a user entry with the
\* text as typed (not trimmed), empties the input field, clears the error
\* message, sets isLoading and posts one request carrying the same text; the
\* request is in flight right after.
C17_AcceptedSubmitEffects ==
    /\ [][ (SubmitQuery /\ ~AllWhiteSpace(query))
             => /\ messages' = Append(messages, [role |-> "user", content |-> query])
                /\ query' = <<>>
                /\ errorMessage' = ""
                /\ isLoading' = TRUE
                /\ posted' = posted + 1
                /\ pending' = pending \cup {[id |-> posted + 1, body |-> [query |-> query]]}
                /\ Cardinality(pending') = Cardinality(pending) + 1 ]_vars
    /\ [](qLast.kind = "submitted"
            => /\ isLoading
               /\ errorMessage = ""
               /\ \E r \in pending :
                     /\ r.id = qLast.id
                     /\ LastMessage = [role |-> "user", content |-> r.body.query])

\* C17 witness: the padded text " q\n" has just been submitted, after an
\* earlier request: entry and request carry it untrimmed.
C17_Witness ==
    /\ qLast = [kind |-> "submitted", id |-> 2]
    /\ LastMessage = [role |-> "user", content |-> <<" ", "q", "\n">>]
    /\ [id |-> 2, body |-> [query |-> <<" ", "q", "\n">>]] \in pending
    /\ query = <<>>
    /\ errorMessage = ""

\* Number of transcript entries of a role.
CountRole(role) == Cardinality({ i \in DOMAIN messages : messages[i].role = role })

\* C20: when no request is in flight isLoading is false; the number of
\* assistant entries equals the number of requests resolved with success and
\* never exceeds the number of user entries.
C20_IdleAndCounts ==
    /\ (pending = {} => ~isLoading)
    /\ CountRole("assistant") = Cardinality(ResolvedOk)
    /\ CountRole("assistant") <= CountRole("user")

\* C20 witness: two requests have resolved with success and none is in flight.
C20_Witness ==
    /\ pending = {}
    /\ posted = 2
    /\ failed = {}
    /\ CountRole("assistant") = 2
    /\ ~isLoading

====
